---- MODULE Spec2Model ----
(***************************************************************************)
(* NLSR Hello protocol (src/src/hello-protocol.cpp) and load-aware link    *)
(* cost calculator (src/src/route/load-aware-routing-calculator.cpp).      *)
(*                                                                         *)
(* Spec      : the Hello protocol engine, one step per callback.           *)
(* LiveSpec  : Spec with the fairness of the single-threaded executor.     *)
(* CostSpec  : cost queries against one calculator instance.               *)
(***************************************************************************)
EXTENDS Integers, Sequences, FiniteSets, TLC

\* ------------------------------------------------------------------ bounds
\* configured interest_retry_number: MaxRetryNumber - 1 and MaxRetryNumber
\* are explored
MaxRetryNumber == 2
\* most probes outstanding at once (at the Face, deferred by a NACK, or
\* waiting for the validator)
MaxOutstanding == 2
\* timed_out_count values explored: one past the largest retry number
MaxTimeouts == MaxRetryNumber + 1

\* ------------------------------------------------------------------- names
\* A name is a sequence of components; a component is a string.
NLSR_COMPONENT == "NLSR"
INFO_COMPONENT == "INFO"

\* m_confParam.getRouterPrefix()
RouterPrefix == <<"r">>
\* m_confParam.getAdjacencyList(): the configured neighbors
NeighborA == <<"a">>
NeighborNames == {NeighborA}
\* a router that is not in the adjacency list
UnknownName == <<"x">>
RouterNames == NeighborNames \cup {UnknownName, RouterPrefix}

\* Name::wireEncode(): the name as one opaque component
WireEncode(name) ==
  CASE name = <<"a">> -> "wire(a)"
    [] name = <<"x">> -> "wire(x)"
    [] name = <<"r">> -> "wire(r)"
    [] OTHER -> "wire(?)"

\* Component::blockFromValue() followed by Name(Block)
BlockFromValue(component) ==
  IF \E n \in RouterNames : WireEncode(n) = component
  THEN CHOOSE n \in RouterNames : WireEncode(n) = component
  ELSE <<>>

\* Name::getPrefix(-k): all but the last k components
GetPrefix(name, k) ==
  IF Len(name) >= k THEN SubSeq(name, 1, Len(name) - k) ELSE <<>>

\* Name::get(-k): the k-th component from the end
Get(name, k) ==
  IF Len(name) >= k THEN name[Len(name) + 1 - k] ELSE ""

\* interest name: /<neighbor>/NLSR/INFO/<router>
HelloInterestName(neighbor) ==
  neighbor \o <<NLSR_COMPONENT, INFO_COMPONENT, WireEncode(RouterPrefix)>>

InterestNames == {HelloInterestName(n) : n \in NeighborNames}

\* Data returned by the Face for an Interest with CanBePrefix: the Interest
\* name followed by any suffix.  A Hello reply appends one version component.
DataSuffixes == {<<"v1">>, <<"v1", "s0">>}
DataNames == {i \o s : i \in InterestNames, s \in DataSuffixes}

\* Interests the registered filter <router>/NLSR/INFO can deliver
InboundInterestNames ==
  {RouterPrefix \o <<NLSR_COMPONENT, INFO_COMPONENT, WireEncode(s)>> :
     s \in NeighborNames \cup {UnknownName}}
  \cup
  {RouterPrefix \o <<NLSR_COMPONENT, INFO_COMPONENT, "extra", WireEncode(s)>> :
     s \in NeighborNames}

\* ---------------------------------------------------------- adjacency list
STATUS_UNKNOWN == -1
STATUS_INACTIVE == 0
STATUS_ACTIVE == 1

HYPERBOLIC_STATE_OFF == 0
HYPERBOLIC_STATE_ON == 1

\* face ids a neighbor can be bound to; 0 is "no face"
FaceIds == {0, 7}

NoAdjacent == [status |-> STATUS_UNKNOWN, timedOutCount |-> 0, faceId |-> 0]

isNeighbor(adj, name) == name \in DOMAIN adj

findAdjacent(adj, name) == IF isNeighbor(adj, name) THEN adj[name] ELSE NoAdjacent

getStatusOfNeighbor(adj, name) ==
  IF isNeighbor(adj, name) THEN adj[name].status ELSE STATUS_INACTIVE

setStatusOfNeighbor(adj, name, s) ==
  IF isNeighbor(adj, name) THEN [adj EXCEPT ![name].status = s] ELSE adj

getTimedOutInterestCount(adj, name) ==
  IF isNeighbor(adj, name) THEN adj[name].timedOutCount ELSE 0

setTimedOutInterestCount(adj, name, c) ==
  IF isNeighbor(adj, name) THEN [adj EXCEPT ![name].timedOutCount = c] ELSE adj

incrementTimedOutInterestCount(adj, name) ==
  IF isNeighbor(adj, name)
  THEN [adj EXCEPT ![name].timedOutCount = adj[name].timedOutCount + 1]
  ELSE adj

\* ------------------------------------------------------------------- state
VARIABLES
  adjacencyList,        \* m_adjacencyList: name -> [status, timedOutCount, faceId]
  hyperbolicState,      \* m_confParam.getHyperbolicState()
  interestRetryNumber,  \* m_confParam.getInterestRetryNumber()
  pendingInterests,     \* m_face: Interests expressed and not yet answered
  nackTimeouts,         \* m_scheduler: processInterestTimedOut tasks set by a Nack
  helloEvents,          \* m_scheduler: pending sendHelloInterest tasks
  validating,           \* m_confParam.getValidator(): Data being validated
  reachable,            \* environment: the neighbor answers Interests
  handler,              \* the callback that ran last: the name it was given, the
                        \* adjacency list and lastOutcome as it found them
  emitted,              \* signals and calls made by that callback, in order
  statusChanges,        \* history: last onNeighborStatusChanged statuses per neighbor
  respondedSinceInactive, \* history: a Hello reply was accepted since the last
                          \* change of the status to INACTIVE (or since start)
  timeoutsSinceData,    \* history: timeouts handled since the last Hello reply
  lastOutcome,          \* history: "data" / "timeout" / "none", last of the two
  rttHistory,           \* m_rttHistory: name -> sequence of RTT samples (ms)
  lastQuery,            \* the cost query just answered: its inputs and its result
  calculators,          \* LoadAwareRoutingCalculator objects: id -> life stage
  loadAwareCostCalculator \* m_linkCostManager: the calculator whose callback
                          \* is installed, or NoCalculator

helloVars == <<adjacencyList, hyperbolicState, interestRetryNumber,
               pendingInterests, nackTimeouts, helloEvents, validating,
               reachable, handler, emitted, statusChanges,
               respondedSinceInactive, timeoutsSinceData, lastOutcome>>
costVars == <<rttHistory, lastQuery>>
hookVars == <<calculators, loadAwareCostCalculator>>
vars == <<adjacencyList, hyperbolicState, interestRetryNumber,
          pendingInterests, nackTimeouts, helloEvents, validating,
          reachable, handler, emitted, statusChanges,
          respondedSinceInactive, timeoutsSinceData, lastOutcome,
          rttHistory, lastQuery, calculators, loadAwareCostCalculator>>

\* how many onNeighborStatusChanged statuses statusChanges keeps per neighbor
LogWindow == 2

\* ------------------------------------------------------------------ signals
\* One emitted signal or outgoing call.  obs is the adjacency record of nbr
\* as a synchronous subscriber reads it when the signal is delivered.
Ev(kind, nbr, arg, adj) ==
  [ev |-> kind, nbr |-> nbr, arg |-> arg, obs |-> findAdjacent(adj, nbr)]

hpIncrementSignal(packetType, adj) == Ev(packetType, <<>>, 0, adj)

\* mutant: the routing mode ignored, the Adj LSA build always scheduled
Reconverge_AlwaysAdjLsa(hyper, neighbor, adj) ==
  <<Ev("scheduleAdjLsaBuild", neighbor, 0, adj)>>

\* the reconvergence call made after a status change
Reconverge(hyper, neighbor, adj) ==
  IF hyper = HYPERBOLIC_STATE_ON
  THEN <<Ev("scheduleRoutingTableCalculation", neighbor, 0, adj)>>
  ELSE <<Ev("scheduleAdjLsaBuild", neighbor, 0, adj)>>

\* HelloProtocol::expressInterest: what it emits; the Interest itself goes
\* into pendingInterests
expressInterest(interestName, adj) ==
  << Ev("InterestSent", GetPrefix(interestName, 3), 0, adj),
     hpIncrementSignal("SENT_HELLO_INTEREST", adj) >>

\* ----------------------------------------------------------------- handlers
\* Each handler yields [adj: the adjacency list it leaves, out: what it
\* emitted, sent: the Interests it expressed].

\* sendHelloInterest: "if (adjacent->getFaceId() != 0)"
HasFace(adjacent) == adjacent.faceId # 0

\* mutant: the next run scheduled inside the face test
SchedulesNextHello_OnlyWithFace(hasFace) == hasFace

\* sendHelloInterest: the final m_scheduler.schedule is outside the face test
SchedulesNextHello(hasFace) == TRUE

sendHelloInterest(neighbor, adj) ==
  LET adjacent == findAdjacent(adj, neighbor)
      interestName == HelloInterestName(neighbor)
  IN  IF ~isNeighbor(adj, neighbor)
      THEN [adj |-> adj, out |-> <<>>, sent |-> <<>>, rescheduled |-> FALSE]
      ELSE IF HasFace(adjacent)
      THEN [adj |-> adj, out |-> expressInterest(interestName, adj),
            sent |-> <<interestName>>,
            rescheduled |-> SchedulesNextHello(TRUE)]
      ELSE [adj |-> adj, out |-> <<>>, sent |-> <<>>,
            rescheduled |-> SchedulesNextHello(FALSE)]

\* mutant: the face test of the reactive Hello lost
SendsReactiveHello_AnyFace(adjacent) == adjacent.status = STATUS_INACTIVE

\* processInterest: "if (adjacent->getStatus() == STATUS_INACTIVE)" and
\* "if (adjacent->getFaceId() != 0)"
SendsReactiveHello(adjacent) ==
  adjacent.status = STATUS_INACTIVE /\ adjacent.faceId # 0

\* mutant: the test of the INFO component lost
HasInfoComponent_Unchecked(interestName) == TRUE

\* processInterest: "interestName.get(-2).toUri() != INFO_COMPONENT" is false
HasInfoComponent(interestName) == Get(interestName, 2) = INFO_COMPONENT

processInterest(interestName, adj) ==
  LET rcv == <<hpIncrementSignal("RCV_HELLO_INTEREST", adj)>>
      neighbor == BlockFromValue(Get(interestName, 1))
      reply == << Ev("put", neighbor, 0, adj),
                  hpIncrementSignal("SENT_HELLO_DATA", adj) >>
      helloName == HelloInterestName(neighbor)
  IN  IF ~HasInfoComponent(interestName)
      THEN [adj |-> adj, out |-> rcv, sent |-> <<>>]
      ELSE IF ~isNeighbor(adj, neighbor)
      THEN [adj |-> adj, out |-> rcv, sent |-> <<>>]
      ELSE IF SendsReactiveHello(findAdjacent(adj, neighbor))
      THEN [adj |-> adj, out |-> rcv \o reply \o expressInterest(helloName, adj),
            sent |-> <<helloName>>]
      ELSE [adj |-> adj, out |-> rcv \o reply, sent |-> <<>>]

\* mutant: the retry test lost, every timeout re-expresses the Interest
ResendsInterest_Always(infoIntTimedOutCount, retryNumber) == TRUE

\* mutant: the retry comparison off by one
ResendsInterest_OffByOne(infoIntTimedOutCount, retryNumber) ==
  infoIntTimedOutCount <= retryNumber

\* processInterestTimedOut: "if (infoIntTimedOutCount < getInterestRetryNumber())"
ResendsInterest(infoIntTimedOutCount, retryNumber) ==
  infoIntTimedOutCount < retryNumber

\* mutant: the status test dropped, every timeout at the limit deactivates
TimeoutDeactivates_Always(status) == TRUE

\* mutant: the status test inverted, an ACTIVE neighbor is never deactivated
TimeoutDeactivates_Inverted(status) == status = STATUS_INACTIVE

\* mutant: the deactivation branch lost
TimeoutDeactivates_Never(status) == FALSE

\* processInterestTimedOut: "else if (status == Adjacent::STATUS_ACTIVE)"
TimeoutDeactivates(status) == status = STATUS_ACTIVE

processInterestTimedOut(interestName, adj, retryNumber, hyper) ==
  LET neighbor == GetPrefix(interestName, 3)
      adj1 == incrementTimedOutInterestCount(adj, neighbor)
      status == getStatusOfNeighbor(adj1, neighbor)
      infoIntTimedOutCount == getTimedOutInterestCount(adj1, neighbor)
      timeout == <<Ev("Timeout", neighbor, infoIntTimedOutCount, adj1)>>
      helloName == HelloInterestName(neighbor)
      adj2 == setStatusOfNeighbor(adj1, neighbor, STATUS_INACTIVE)
  IN  IF Get(interestName, 2) # INFO_COMPONENT
      THEN [adj |-> adj, out |-> <<>>, sent |-> <<>>]
      ELSE IF ResendsInterest(infoIntTimedOutCount, retryNumber)
      THEN [adj |-> adj1, out |-> timeout \o expressInterest(helloName, adj1),
            sent |-> <<helloName>>]
      ELSE IF TimeoutDeactivates(status)
      THEN [adj |-> adj2,
            out |-> timeout
                    \o <<Ev("NeighborStatusChanged", neighbor, STATUS_INACTIVE, adj2)>>
                    \o Reconverge(hyper, neighbor, adj2),
            sent |-> <<>>]
      ELSE [adj |-> adj1, out |-> timeout, sent |-> <<>>]

\* mutant: the change test dropped, every reply is announced as a change
StatusChanged_Always(oldStatus, newStatus) == TRUE

\* onContentValidated: "if ((oldStatus - newStatus) != 0)"
StatusChanged(oldStatus, newStatus) == (oldStatus - newStatus) # 0

\* mutant: the count is not reset
CountAfterData_Kept(oldCount) == oldCount

\* mutant: the count is decremented instead of reset
CountAfterData_Decrement(oldCount) == IF oldCount > 0 THEN oldCount - 1 ELSE 0

\* onContentValidated: the count written by setTimedOutInterestCount(neighbor, 0)
CountAfterData(oldCount) == 0

\* mutant: the reconvergence call made before the status change is announced
AnnounceChange_ReconvergeFirst(hyper, neighbor, newStatus, adj) ==
  Reconverge(hyper, neighbor, adj)
  \o (IF newStatus = STATUS_ACTIVE
      THEN <<Ev("NeighborStatusChanged", neighbor, STATUS_ACTIVE, adj)>>
      ELSE <<>>)
  \o <<Ev("InitialHelloDataValidated", neighbor, 0, adj)>>

\* onContentValidated: what the branch "change in Adjacency list" emits
AnnounceChange(hyper, neighbor, newStatus, adj) ==
  (IF newStatus = STATUS_ACTIVE
   THEN <<Ev("NeighborStatusChanged", neighbor, STATUS_ACTIVE, adj)>>
   ELSE <<>>)
  \o Reconverge(hyper, neighbor, adj)
  \o <<Ev("InitialHelloDataValidated", neighbor, 0, adj)>>

onContentValidated(dataName, adj, hyper) ==
  LET neighbor == GetPrefix(dataName, 4)
      oldStatus == getStatusOfNeighbor(adj, neighbor)
      adj1 == setStatusOfNeighbor(adj, neighbor, STATUS_ACTIVE)
      adj2 == setTimedOutInterestCount(adj1, neighbor,
                CountAfterData(getTimedOutInterestCount(adj1, neighbor)))
      newStatus == getStatusOfNeighbor(adj2, neighbor)
      rcv == <<hpIncrementSignal("RCV_HELLO_DATA", adj2)>>
      changed == AnnounceChange(hyper, neighbor, newStatus, adj2)
  IN  IF Get(dataName, 3) = INFO_COMPONENT
      THEN [adj |-> adj2,
            out |-> <<Ev("DataReceived", neighbor, 0, adj2)>>
                    \o (IF StatusChanged(oldStatus, newStatus) THEN changed ELSE <<>>)
                    \o rcv,
            sent |-> <<>>]
      ELSE [adj |-> adj, out |-> rcv, sent |-> <<>>]

\* --------------------------------------------------------------------- Init
NoQuery == [made |-> FALSE]

\* how many LoadAwareRoutingCalculator objects are ever constructed
MaxCalculators == 4
CalculatorIds == 1..MaxCalculators
\* the link-cost manager holds no load-aware callback
NoCalculator == 0

\* start(): one sendHelloInterest task scheduled for every configured neighbor
start == [n \in NeighborNames |-> 1]

\* The engine after construction and start: every neighbor INACTIVE with no
\* timeouts counted, and its first sendHelloInterest scheduled.
Init ==
  /\ adjacencyList \in
       [NeighborNames -> [status : {STATUS_INACTIVE}, timedOutCount : {0},
                          faceId : FaceIds]]
  /\ hyperbolicState \in {HYPERBOLIC_STATE_OFF, HYPERBOLIC_STATE_ON}
  /\ interestRetryNumber \in (MaxRetryNumber - 1)..MaxRetryNumber
  /\ pendingInterests = [i \in InterestNames |-> 0]
  /\ nackTimeouts = [i \in InterestNames |-> 0]
  /\ helloEvents = start
  /\ validating = [d \in DataNames |-> 0]
  /\ reachable = [n \in NeighborNames |-> TRUE]
  /\ emitted = <<>>
  /\ statusChanges = [n \in NeighborNames |-> <<>>]
  /\ respondedSinceInactive = [n \in NeighborNames |-> FALSE]
  /\ timeoutsSinceData = [n \in NeighborNames |-> 0]
  /\ lastOutcome = [n \in NeighborNames |-> "none"]
  /\ handler = [op |-> "none", name |-> <<>>, before |-> adjacencyList,
                prevOutcome |-> lastOutcome]
  /\ rttHistory = <<>>
  /\ lastQuery = NoQuery
  /\ calculators = [c \in CalculatorIds |-> "unborn"]
  /\ loadAwareCostCalculator = NoCalculator

\* ------------------------------------------------------------ bookkeeping
RECURSIVE SumOver(_, _)
SumOver(f, S) ==
  IF S = {} THEN 0
  ELSE LET x == CHOOSE y \in S : TRUE IN f[x] + SumOver(f, S \ {x})

\* probes not yet settled: at the Face, deferred by a Nack, at the validator
Outstanding ==
  SumOver(pendingInterests, InterestNames) + SumOver(nackTimeouts, InterestNames)
  + SumOver(validating, DataNames)

RECURSIVE AddAll(_, _)
AddAll(table, names) ==
  IF names = <<>> THEN table
  ELSE AddAll([table EXCEPT ![Head(names)] = @ + 1], Tail(names))

LastOf(s, k) == IF Len(s) > k THEN SubSeq(s, Len(s) - k + 1, Len(s)) ELSE s

RECURSIVE StatusesIn(_, _)
\* the statuses of the onNeighborStatusChanged signals for n in out, in order
StatusesIn(out, n) ==
  IF out = <<>> THEN <<>>
  ELSE (IF Head(out).ev = "NeighborStatusChanged" /\ Head(out).nbr = n
        THEN <<Head(out).arg>> ELSE <<>>) \o StatusesIn(Tail(out), n)

\* a Hello reply to the probe sent to n: the probe name plus one version component
IsHelloReply(dataName, n) ==
  /\ Len(dataName) = Len(HelloInterestName(n)) + 1
  /\ SubSeq(dataName, 1, Len(dataName) - 1) = HelloInterestName(n)

Min(a, b) == IF a < b THEN a ELSE b

\* A callback op(name) ran and yielded r; replyFrom / timeoutOf are the
\* neighbors whose Hello reply / probe timeout it handled.
Ran(op, name, r, replyFrom, timeoutOf) ==
  /\ adjacencyList' = r.adj
  /\ handler' = [op |-> op, name |-> name, before |-> adjacencyList,
                 prevOutcome |-> lastOutcome]
  /\ emitted' = r.out
  /\ statusChanges' =
       [n \in NeighborNames |->
          LastOf(statusChanges[n] \o StatusesIn(r.out, n), LogWindow)]
  /\ respondedSinceInactive' =
       [n \in NeighborNames |->
          IF n \in replyFrom THEN TRUE
          ELSE IF adjacencyList[n].status # STATUS_INACTIVE
                  /\ r.adj[n].status = STATUS_INACTIVE THEN FALSE
          ELSE respondedSinceInactive[n]]
  /\ timeoutsSinceData' =
       [n \in NeighborNames |->
          IF n \in replyFrom THEN 0
          ELSE IF n \in timeoutOf THEN Min(timeoutsSinceData[n] + 1, MaxTimeouts + 1)
          ELSE timeoutsSinceData[n]]
  /\ lastOutcome' =
       [n \in NeighborNames |->
          IF n \in replyFrom THEN "data"
          ELSE IF n \in timeoutOf THEN "timeout"
          ELSE lastOutcome[n]]

Idle == [adj |-> adjacencyList, out |-> <<>>, sent |-> <<>>]

\* ------------------------------------------------------------------ actions
\* the scheduler runs a pending sendHelloInterest(neighbor)
SendHelloInterest(neighbor) ==
  /\ helloEvents[neighbor] > 0
  /\ \E r \in {sendHelloInterest(neighbor, adjacencyList)} :
       /\ r.sent # <<>> => Outstanding < MaxOutstanding
       /\ pendingInterests' = AddAll(pendingInterests, r.sent)
       /\ helloEvents' = [helloEvents EXCEPT
                            ![neighbor] = @ - 1 + (IF r.rescheduled THEN 1 ELSE 0)]
       /\ Ran("sendHelloInterest", neighbor, r, {}, {})
       /\ UNCHANGED <<hyperbolicState, interestRetryNumber, nackTimeouts,
                      validating, reachable, rttHistory, lastQuery, hookVars>>

\* the Face delivers an Interest under <router>/NLSR/INFO
ProcessInterest(interestName) ==
  \E r \in {processInterest(interestName, adjacencyList)} :
  /\ r.sent # <<>> => Outstanding < MaxOutstanding
  /\ pendingInterests' = AddAll(pendingInterests, r.sent)
  /\ Ran("processInterest", interestName, r, {}, {})
  /\ UNCHANGED <<hyperbolicState, interestRetryNumber, nackTimeouts,
                 helloEvents, validating, reachable, rttHistory, lastQuery, hookVars>>

\* the Face reports that a pending Interest timed out
InterestTimedOut(interestName) ==
  /\ pendingInterests[interestName] > 0
  /\ getTimedOutInterestCount(adjacencyList, GetPrefix(interestName, 3))
       < MaxTimeouts
  /\ \E r \in {processInterestTimedOut(interestName, adjacencyList,
                                      interestRetryNumber, hyperbolicState)} :
       /\ pendingInterests' =
            AddAll([pendingInterests EXCEPT ![interestName] = @ - 1], r.sent)
       /\ Ran("processInterestTimedOut", interestName, r, {},
              {n \in NeighborNames : HelloInterestName(n) = interestName})
       /\ UNCHANGED <<hyperbolicState, interestRetryNumber, nackTimeouts,
                      helloEvents, validating, reachable, rttHistory, lastQuery, hookVars>>

\* mutant: the Nack callback schedules nothing
TimeoutRunsAfterNack_Dropped(interestName) == 0

\* expressInterest, Nack callback: how many processInterestTimedOut runs it
\* schedules (for 2 * seconds later; the delay itself is not modelled, the
\* run happens at any later point)
TimeoutRunsAfterNack(interestName) == 1

\* the Face reports a Nack: the timeout handler is scheduled for later
InterestNacked(interestName) ==
  /\ pendingInterests[interestName] > 0
  /\ pendingInterests' = [pendingInterests EXCEPT ![interestName] = @ - 1]
  /\ nackTimeouts' = [nackTimeouts EXCEPT
                        ![interestName] = @ + TimeoutRunsAfterNack(interestName)]
  /\ Ran("onNack", interestName, Idle, {}, {})
  /\ UNCHANGED <<hyperbolicState, interestRetryNumber, helloEvents,
                 validating, reachable, rttHistory, lastQuery, hookVars>>

\* the scheduler runs the timeout handler a Nack had scheduled
NackTimedOut(interestName) ==
  /\ nackTimeouts[interestName] > 0
  /\ getTimedOutInterestCount(adjacencyList, GetPrefix(interestName, 3))
       < MaxTimeouts
  /\ \E r \in {processInterestTimedOut(interestName, adjacencyList,
                                      interestRetryNumber, hyperbolicState)} :
       /\ nackTimeouts' = [nackTimeouts EXCEPT ![interestName] = @ - 1]
       /\ pendingInterests' = AddAll(pendingInterests, r.sent)
       /\ Ran("deferred processInterestTimedOut", interestName, r, {},
              {n \in NeighborNames : HelloInterestName(n) = interestName})
       /\ UNCHANGED <<hyperbolicState, interestRetryNumber, helloEvents,
                      validating, reachable, rttHistory, lastQuery, hookVars>>

\* the Face delivers Data for a pending Interest: it goes to the validator
OnContent(interestName, suffix) ==
  /\ pendingInterests[interestName] > 0
  /\ reachable[GetPrefix(interestName, 3)]
  /\ pendingInterests' = [pendingInterests EXCEPT ![interestName] = @ - 1]
  /\ validating' = [validating EXCEPT ![interestName \o suffix] = @ + 1]
  /\ Ran("onContent", interestName \o suffix, Idle, {}, {})
  /\ UNCHANGED <<hyperbolicState, interestRetryNumber, nackTimeouts,
                 helloEvents, reachable, rttHistory, lastQuery, hookVars>>

\* the validator accepts the Data
OnContentValidated(dataName) ==
  /\ validating[dataName] > 0
  /\ \E r \in {onContentValidated(dataName, adjacencyList, hyperbolicState)} :
       /\ validating' = [validating EXCEPT ![dataName] = @ - 1]
       /\ Ran("onContentValidated", dataName, r,
              {n \in NeighborNames : IsHelloReply(dataName, n)}, {})
       /\ UNCHANGED <<hyperbolicState, interestRetryNumber, pendingInterests,
                      nackTimeouts, helloEvents, reachable, rttHistory, lastQuery, hookVars>>

\* the validator rejects the Data
OnContentValidationFailed(dataName) ==
  /\ validating[dataName] > 0
  /\ validating' = [validating EXCEPT ![dataName] = @ - 1]
  /\ Ran("onContentValidationFailed", dataName, Idle, {}, {})
  /\ UNCHANGED <<hyperbolicState, interestRetryNumber, pendingInterests,
                 nackTimeouts, helloEvents, reachable, rttHistory, lastQuery, hookVars>>

\* environment: the face of a neighbor is created or destroyed
FaceIdChanged(neighbor, faceId) ==
  /\ adjacencyList[neighbor].faceId # faceId
  /\ Ran("faceEvent", neighbor,
         [adj |-> [adjacencyList EXCEPT ![neighbor].faceId = faceId],
          out |-> <<>>, sent |-> <<>>], {}, {})
  /\ UNCHANGED <<hyperbolicState, interestRetryNumber, pendingInterests,
                 nackTimeouts, helloEvents, validating, reachable, rttHistory,
                 lastQuery, hookVars>>

\* environment: a neighbor stops or resumes answering Interests
ReachabilityChanged(neighbor) ==
  /\ reachable' = [reachable EXCEPT ![neighbor] = ~@]
  /\ Ran("linkEvent", neighbor, Idle, {}, {})
  /\ UNCHANGED <<hyperbolicState, interestRetryNumber, pendingInterests,
                 nackTimeouts, helloEvents, validating, rttHistory, lastQuery, hookVars>>

Next ==
  \/ \E n \in NeighborNames : SendHelloInterest(n)
  \/ \E i \in InboundInterestNames : ProcessInterest(i)
  \/ \E i \in InterestNames : InterestTimedOut(i)
  \/ \E i \in InterestNames : InterestNacked(i)
  \/ \E i \in InterestNames : NackTimedOut(i)
  \/ \E i \in InterestNames, s \in DataSuffixes : OnContent(i, s)
  \/ \E d \in DataNames : OnContentValidated(d)
  \/ \E d \in DataNames : OnContentValidationFailed(d)
  \/ \E n \in NeighborNames, f \in FaceIds : FaceIdChanged(n, f)
  \/ \E n \in NeighborNames : ReachabilityChanged(n)

Spec == Init /\ [][Next]_vars

\* --------------------------------------------------- load-aware link cost
\* The calculator computes in double.  Here every quantity is an exact
\* rational kept as an integer numerator: weights in tenths, factors in
\* six-hundredths (the unit of "seconds / 60.0 * 0.1"), costs returned by the
\* calculator in units of 1 / CostScale.
WeightScale == 10
FactorScale == 600
CostScale == WeightScale * FactorScale

\* 0.3, 0.4, 0.3 in tenths
DEFAULT_RTT_WEIGHT == 3
DEFAULT_LOAD_WEIGHT == 4
DEFAULT_STABILITY_WEIGHT == 3
\* milliseconds
RTT_THRESHOLD_EXCELLENT == 10
RTT_THRESHOLD_GOOD == 50
RTT_THRESHOLD_FAIR == 100
RTT_THRESHOLD_POOR == 200

\* length bound of one neighbor's RTT history
MAX_RTT_HISTORY == 4

\* an optional value: <<>> (absent) or <<v>>
Has(opt) == opt # <<>>
ValueOf(opt) == opt[1]

\* neighbors the link-cost manager asks about
CostNeighbors == {<<"a">>, <<"b">>}
\* metrics.currentRtt: absent, or a duration in nanoseconds
RttValues == {<<>>, <<10000000>>, <<10000100>>, <<60000000>>, <<250000000>>}
\* metrics.timeoutCount
TimeoutCountValues == {<<>>, <<0>>, <<2>>}
\* steady_clock::now() when the query is made, in milliseconds
NowValue == 2000000
\* metrics.lastSuccessTime, in milliseconds: absent, now, 61 s and 2000 s
\* before now
LastSuccessValues == {<<>>, <<NowValue>>, <<NowValue - 61000>>, <<0>>}
RttBasedCostValues == {-10, 0, 10, 200}
OriginalCostValues == {0, 100}

\* duration_cast<milliseconds>(d).count() of a duration in nanoseconds
DurationCastMs(ns) == ns \div 1000000
\* duration_cast<seconds>(d).count() of a duration in milliseconds
DurationCastSeconds(ms) == ms \div 1000

Max(a, b) == IF a > b THEN a ELSE b

RECURSIVE SumSeq(_)
SumSeq(q) == IF q = <<>> THEN 0 ELSE Head(q) + SumSeq(Tail(q))

HistoryOf(hist, neighbor) ==
  IF neighbor \in DOMAIN hist THEN hist[neighbor] ELSE <<>>

\* mutant: the newest samples dropped on overflow instead of the oldest
updateRttHistory_DropsNewest(hist, neighbor, currentRttMs) ==
  LET pushed == Append(HistoryOf(hist, neighbor), currentRttMs)
      kept == SubSeq(pushed, 1, Min(Len(pushed), MAX_RTT_HISTORY))
  IN  [n \in DOMAIN hist \cup {neighbor} |-> IF n = neighbor THEN kept ELSE hist[n]]

\* updateRttHistory: push_back, then pop_front while over MAX_RTT_HISTORY
updateRttHistory(hist, neighbor, currentRttMs) ==
  LET pushed == Append(HistoryOf(hist, neighbor), currentRttMs)
      kept == LastOf(pushed, MAX_RTT_HISTORY)
  IN  [n \in DOMAIN hist \cup {neighbor} |-> IF n = neighbor THEN kept ELSE hist[n]]

\* getRttFactor, in six-hundredths: 0.0, 0.2, 0.5, 1.0, 2.0
getRttFactor(metrics) ==
  IF ~Has(metrics.currentRtt) THEN 0
  ELSE LET rttMsValue == DurationCastMs(ValueOf(metrics.currentRtt)) IN
       IF rttMsValue <= RTT_THRESHOLD_EXCELLENT THEN 0
       ELSE IF rttMsValue <= RTT_THRESHOLD_GOOD THEN 120
       ELSE IF rttMsValue <= RTT_THRESHOLD_FAIR THEN 300
       ELSE IF rttMsValue <= RTT_THRESHOLD_POOR THEN 600
       ELSE 1200

\* getLoadFactor: the history after "updateRttHistory(metrics.neighbor, rttMs)"
LoadHistory(metrics, hist) ==
  IF Has(metrics.currentRtt)
  THEN updateRttHistory(hist, metrics.neighbor,
                        DurationCastMs(ValueOf(metrics.currentRtt)))
  ELSE hist

\* getLoadFactor: "it == m_rttHistory.end() || it->second.size() < 3"
TooFewSamples(hist, neighbor) ==
  neighbor \notin DOMAIN hist \/ Len(hist[neighbor]) < 3

\* getLoadFactor on the updated history, in six-hundredths: 0.0, 0.3, 0.7, 1.5.
\* With n samples of sum s, mean = s / n and
\* varsum = SUM (n * x - s)^2 = n^2 * SUM (x - mean)^2, so that
\* variationRate^2 = (stddev / mean)^2 = varsum / (n * s^2), and
\* variationRate <= p / q  <=>  q^2 * varsum <= p^2 * n * s^2.
RECURSIVE SquaredDeviations(_, _, _)
SquaredDeviations(q, n, s) ==
  IF q = <<>> THEN 0
  ELSE (n * Head(q) - s) * (n * Head(q) - s) + SquaredDeviations(Tail(q), n, s)

VariationAtMost(history, p, q) ==
  LET n == Len(history)
      s == SumSeq(history)
  IN  s <= 0 \/ q * q * SquaredDeviations(history, n, s) <= p * p * n * s * s

loadFactorOf(hist, neighbor) ==
  IF TooFewSamples(hist, neighbor) THEN 0
  ELSE LET history == hist[neighbor] IN
       IF VariationAtMost(history, 1, 10) THEN 0
       ELSE IF VariationAtMost(history, 2, 10) THEN 180
       ELSE IF VariationAtMost(history, 5, 10) THEN 420
       ELSE 900

\* getStabilityFactor: "if (secondsSinceSuccess > 60)"
LongSinceSuccess(secondsSinceSuccess) == secondsSinceSuccess > 60

\* getStabilityFactor, in six-hundredths: timeoutCount * 0.2, plus
\* min(2.0, secondsSinceSuccess / 60.0 * 0.1) after more than a minute
getStabilityFactor(metrics, now) ==
  LET timeoutPart ==
        IF Has(metrics.timeoutCount) /\ ValueOf(metrics.timeoutCount) # 0
        THEN ValueOf(metrics.timeoutCount) * 120 ELSE 0
      secondsSinceSuccess ==
        DurationCastSeconds(now - ValueOf(metrics.lastSuccessTime))
      timePart ==
        IF Has(metrics.lastSuccessTime) /\ LongSinceSuccess(secondsSinceSuccess)
        THEN Min(1200, secondsSinceSuccess) ELSE 0
  IN  timeoutPart + timePart

\* mutant: the RTT and load weights exchanged
AdjustmentFactor_Swapped(rttFactor, loadFactor, stabilityFactor) ==
  DEFAULT_LOAD_WEIGHT * rttFactor + DEFAULT_RTT_WEIGHT * loadFactor
  + DEFAULT_STABILITY_WEIGHT * stabilityFactor

\* calculateLoadAwareCost: adjustmentFactor, in units of 1 / CostScale
AdjustmentFactor(rttFactor, loadFactor, stabilityFactor) ==
  DEFAULT_RTT_WEIGHT * rttFactor + DEFAULT_LOAD_WEIGHT * loadFactor
  + DEFAULT_STABILITY_WEIGHT * stabilityFactor

\* mutant: the upper clamp lost
CapCost_Missing(adjustedCost, originalCost) == adjustedCost

\* calculateLoadAwareCost: std::min(adjustedCost, originalCost * 3.0)
CapCost(adjustedCost, originalCost) ==
  Min(adjustedCost, originalCost * 3 * CostScale)

\* calculateLoadAwareCost: std::max(adjustedCost, originalCost * 0.5)
FloorCost(adjustedCost, originalCost) ==
  Max(adjustedCost, (originalCost * CostScale) \div 2)

\* calculateLoadAwareCost: [cost: the returned cost in units of 1 / CostScale,
\* hist: m_rttHistory as it leaves it, and the three factors]
calculateLoadAwareCost(neighbor, rttBasedCost, metrics, hist, now) ==
  IF rttBasedCost <= 0 \/ metrics.originalCost <= 0
  THEN [cost |-> rttBasedCost * CostScale, hist |-> hist, adjusted |-> FALSE,
        rttFactor |-> 0, loadFactor |-> 0, stabilityFactor |-> 0]
  ELSE LET rttFactor == getRttFactor(metrics)
           hist1 == LoadHistory(metrics, hist)
           loadFactor == loadFactorOf(hist1, metrics.neighbor)
           stabilityFactor == getStabilityFactor(metrics, now)
           adjustmentFactor == AdjustmentFactor(rttFactor, loadFactor, stabilityFactor)
           adjustedCost == rttBasedCost * (CostScale + adjustmentFactor)
           hist2 == IF Has(metrics.currentRtt)
                    THEN updateRttHistory(hist1, neighbor,
                           DurationCastMs(ValueOf(metrics.currentRtt)))
                    ELSE hist1
       IN  [cost |-> FloorCost(CapCost(adjustedCost, metrics.originalCost),
                               metrics.originalCost),
            hist |-> hist2, adjusted |-> TRUE,
            rttFactor |-> rttFactor, loadFactor |-> loadFactor,
            stabilityFactor |-> stabilityFactor]

\* the link-cost manager asks for the cost of neighbor with its metrics
CalculateLoadAwareCost(neighbor, rttBasedCost, metrics, now) ==
  /\ ~lastQuery.made
  /\ \E r \in {calculateLoadAwareCost(neighbor, rttBasedCost, metrics,
                                      rttHistory, now)} :
       /\ rttHistory' = r.hist
       /\ lastQuery' = [made |-> TRUE, neighbor |-> neighbor,
                        rttBasedCost |-> rttBasedCost, metrics |-> metrics,
                        now |-> now, before |-> rttHistory, result |-> r]
       /\ UNCHANGED <<helloVars, hookVars>>

LinkMetricsOf(neighbor) ==
  [neighbor : {neighbor}, originalCost : OriginalCostValues,
   currentRtt : RttValues, timeoutCount : TimeoutCountValues,
   lastSuccessTime : LastSuccessValues]

\* the link-cost manager has taken the returned cost
CostReturned ==
  /\ lastQuery.made
  /\ lastQuery' = NoQuery
  /\ UNCHANGED <<rttHistory, helloVars, hookVars>>

CostNext ==
  \/ /\ ~lastQuery.made
     /\ \E neighbor \in CostNeighbors, rttBasedCost \in RttBasedCostValues :
          \E metrics \in LinkMetricsOf(neighbor) :
            CalculateLoadAwareCost(neighbor, rttBasedCost, metrics, NowValue)
  \/ CostReturned

\* the calculator reads nothing of the Hello engine: one configuration of it
CostInit ==
  /\ Init
  /\ hyperbolicState = HYPERBOLIC_STATE_OFF
  /\ interestRetryNumber = MaxRetryNumber
  /\ \A n \in NeighborNames : adjacencyList[n].faceId # 0

CostSpec == CostInit /\ [][CostNext]_vars

\* The executor runs every scheduled task, the Face settles every pending
\* Interest (Data, Nack or timeout) and the validator finishes every validation.
\* The routing mode only selects which reconvergence call is made, so one
\* mode is explored here.
LiveInit == Init /\ hyperbolicState = HYPERBOLIC_STATE_OFF

LiveSpec ==
  /\ LiveInit /\ [][Next]_vars
  /\ \A n \in NeighborNames : WF_vars(SendHelloInterest(n))
  /\ \A i \in InterestNames :
       WF_vars(InterestTimedOut(i) \/ InterestNacked(i)
               \/ \E s \in DataSuffixes : OnContent(i, s))
  /\ \A i \in InterestNames : WF_vars(NackTimedOut(i))
  /\ \A d \in DataNames :
       WF_vars(OnContentValidated(d) \/ OnContentValidationFailed(d))

\* ------------------------------------------- calculator and link-cost manager
\* LinkCostManager::setLoadAwareCostCalculator: the one callback slot is
\* overwritten
setLoadAwareCostCalculator(slot, calculator) == calculator

\* LinkCostManager::clearLoadAwareCostCalculator: the slot is emptied
clearLoadAwareCostCalculator(slot) == NoCalculator

\* mutant: the destructor clears the slot only if it holds its own callback
SlotAfterDestructor_OwnOnly(slot, calculator) ==
  IF slot = calculator THEN clearLoadAwareCostCalculator(slot) ELSE slot

\* ~LoadAwareRoutingCalculator: "m_linkCostManager.clearLoadAwareCostCalculator()"
SlotAfterDestructor(slot, calculator) == clearLoadAwareCostCalculator(slot)

\* LoadAwareRoutingCalculator(linkCostManager): the callback capturing this
\* is installed
Construct(c) ==
  /\ calculators[c] = "unborn"
  /\ calculators' = [calculators EXCEPT ![c] = "alive"]
  /\ loadAwareCostCalculator' =
       setLoadAwareCostCalculator(loadAwareCostCalculator, c)
  /\ UNCHANGED <<helloVars, costVars>>

\* ~LoadAwareRoutingCalculator()
Destroy(c) ==
  /\ calculators[c] = "alive"
  /\ calculators' = [calculators EXCEPT ![c] = "destroyed"]
  /\ loadAwareCostCalculator' = SlotAfterDestructor(loadAwareCostCalculator, c)
  /\ UNCHANGED <<helloVars, costVars>>

HookNext ==
  \/ \E c \in CalculatorIds : Construct(c)
  \/ \E c \in CalculatorIds : Destroy(c)

\* calculators come and go; the Hello engine and the cost queries stand still
HookSpec == CostInit /\ [][HookNext]_vars

\* ------------------------------------------------------------- properties
\* how many signals of kind ev about neighbor n are in out
CountEv(out, ev, n) ==
  Cardinality({i \in 1..Len(out) : out[i].ev = ev /\ out[i].nbr = n})

\* how many onNeighborStatusChanged(n, status) are in out
CountStatusChanged(out, n, status) ==
  Cardinality({i \in 1..Len(out) :
                 /\ out[i].ev = "NeighborStatusChanged"
                 /\ out[i].nbr = n
                 /\ out[i].arg = status})

\* how many reconvergence calls are in out
ReconvergeCalls(out) ==
  Cardinality({i \in 1..Len(out) :
                 out[i].ev \in {"scheduleRoutingTableCalculation",
                                "scheduleAdjLsaBuild"}})

\* the last callback handled a timeout of the probe sent to n
TimeoutRan(n) ==
  /\ handler.op \in {"processInterestTimedOut", "deferred processInterestTimedOut"}
  /\ handler.name = HelloInterestName(n)

\* the last callback handled a validated Hello reply from n
ReplyRan(n) ==
  handler.op = "onContentValidated" /\ IsHelloReply(handler.name, n)

\* C1: for every neighbor the onNeighborStatusChanged signals alternate
\* ACTIVE / INACTIVE and the first one is ACTIVE.
C1_StatusEventsAlternate ==
  \A n \in NeighborNames :
    LET s == statusChanges[n] IN
    /\ (Len(s) >= 1 /\ Len(s) < LogWindow) => s[1] = STATUS_ACTIVE
    /\ \A i \in 1..(Len(s) - 1) : s[i] # s[i + 1]

C1_Witness ==
  \E n \in NeighborNames :
    /\ Len(statusChanges[n]) >= 2
    /\ statusChanges[n][Len(statusChanges[n])] = STATUS_ACTIVE

\* C2: a timeout deactivates the neighbor, emits NeighborStatusChanged(INACTIVE)
\* and makes one reconvergence call exactly when the neighbor was ACTIVE and
\* it is the retry-number-th timeout since the last Hello reply; every other
\* timeout leaves the status alone and makes no reconvergence call.
C2_DeactivatedAtRetryLimit ==
  \A n \in NeighborNames :
    TimeoutRan(n) =>
      IF /\ handler.before[n].status = STATUS_ACTIVE
         /\ timeoutsSinceData[n] = interestRetryNumber
      THEN /\ adjacencyList[n].status = STATUS_INACTIVE
           /\ CountStatusChanged(emitted, n, STATUS_INACTIVE) = 1
           /\ CountEv(emitted, "NeighborStatusChanged", n) = 1
           /\ ReconvergeCalls(emitted) = 1
      ELSE /\ adjacencyList[n].status = handler.before[n].status
           /\ CountEv(emitted, "NeighborStatusChanged", n) = 0
           /\ ReconvergeCalls(emitted) = 0

C2_Witness ==
  \E n \in NeighborNames :
    /\ TimeoutRan(n)
    /\ interestRetryNumber = MaxRetryNumber
    /\ handler.before[n].status = STATUS_ACTIVE
    /\ timeoutsSinceData[n] = interestRetryNumber
    /\ ReconvergeCalls(emitted) = 1

\* C3: a neighbor is ACTIVE exactly when a Hello reply from it was accepted
\* since its status last changed to INACTIVE (or since start) and its
\* timed-out count is below the retry number.
C3_ActiveIffRespondedBelowLimit ==
  \A n \in NeighborNames :
    (adjacencyList[n].status = STATUS_ACTIVE)
      <=> (/\ respondedSinceInactive[n]
           /\ adjacencyList[n].timedOutCount < interestRetryNumber)

C3_Witness ==
  \E n \in NeighborNames :
    /\ adjacencyList[n].status = STATUS_ACTIVE
    /\ adjacencyList[n].timedOutCount > 0
    /\ adjacencyList[n].timedOutCount = interestRetryNumber - 1
    /\ Len(statusChanges[n]) >= 2

\* C4: every InterestSent is for a neighbor whose face id is not 0 when the
\* probe is dispatched, and sendHelloInterest always leaves its next run
\* scheduled.
C4_ProbesOnlyWithFace ==
  /\ \A i \in 1..Len(emitted) :
       emitted[i].ev = "InterestSent" => emitted[i].obs.faceId # 0
  /\ \A n \in NeighborNames :
       (handler.op = "sendHelloInterest" /\ handler.name = n) => helloEvents[n] >= 1

\* C5: when DataReceived(n) is emitted, and when the handler that emitted it
\* ends, n's timed-out count is 0 and its status is ACTIVE.
C5_DataReceivedResets ==
  \A i \in 1..Len(emitted) :
    (emitted[i].ev = "DataReceived" /\ emitted[i].nbr \in NeighborNames) =>
      /\ emitted[i].obs.timedOutCount = 0
      /\ emitted[i].obs.status = STATUS_ACTIVE
      /\ adjacencyList[emitted[i].nbr].timedOutCount = 0
      /\ adjacencyList[emitted[i].nbr].status = STATUS_ACTIVE

C5_Witness ==
  \E n \in NeighborNames :
    /\ ReplyRan(n)
    /\ CountEv(emitted, "DataReceived", n) = 1
    /\ handler.before[n].status = STATUS_INACTIVE
    /\ handler.before[n].timedOutCount >= interestRetryNumber

\* C6 as stated: the timed-out count of a neighbor decreases only in a step
\* that changes its status to ACTIVE.
C6_DecreasesOnlyOnActivation ==
  \A n \in NeighborNames :
    adjacencyList[n].timedOutCount < handler.before[n].timedOutCount =>
      /\ handler.before[n].status # STATUS_ACTIVE
      /\ adjacencyList[n].status = STATUS_ACTIVE
      /\ adjacencyList[n].timedOutCount = 0

\* C6 amended: the timed-out count of a neighbor decreases only in the
\* handling of a validated Hello reply from it, which sets the count to 0 and
\* leaves the status ACTIVE, whether or not the status changed.
C6_DecreasesOnlyOnReply ==
  \A n \in NeighborNames :
    adjacencyList[n].timedOutCount < handler.before[n].timedOutCount =>
      /\ ReplyRan(n)
      /\ adjacencyList[n].status = STATUS_ACTIVE
      /\ adjacencyList[n].timedOutCount = 0

C6_Witness ==
  \E n \in NeighborNames :
    /\ ReplyRan(n)
    /\ handler.before[n].status = STATUS_ACTIVE
    /\ handler.before[n].timedOutCount > 0
    /\ adjacencyList[n].timedOutCount = 0

\* C7: a validated Hello reply emits one DataReceived, and one
\* NeighborStatusChanged exactly when the neighbor was INACTIVE; a reply that
\* follows another reply with no timeout between them emits no
\* NeighborStatusChanged and leaves the adjacency record as it was.
C7_RepeatedReplyIdempotent ==
  \A n \in NeighborNames :
    ReplyRan(n) =>
      /\ CountEv(emitted, "DataReceived", n) = 1
      /\ CountEv(emitted, "NeighborStatusChanged", n)
           = (IF handler.before[n].status = STATUS_INACTIVE THEN 1 ELSE 0)
      /\ handler.prevOutcome[n] = "data" =>
           /\ CountEv(emitted, "NeighborStatusChanged", n) = 0
           /\ adjacencyList[n] = handler.before[n]

C7_Witness ==
  \E n \in NeighborNames :
    /\ ReplyRan(n)
    /\ handler.prevOutcome[n] = "data"
    /\ CountEv(emitted, "DataReceived", n) = 1
    /\ Len(statusChanges[n]) = 1

\* C8 as stated: a neighbor that stays unreachable is eventually INACTIVE,
\* whatever its face id.
C8_UnreachableEventuallyInactive ==
  \A n \in NeighborNames :
    []<>(reachable[n] \/ adjacencyList[n].status = STATUS_INACTIVE)

\* C8 amended: a neighbor that stays unreachable and keeps a non-zero face id
\* is eventually INACTIVE.
C8_UnreachableWithFaceEventuallyInactive ==
  \A n \in NeighborNames :
    []<>(\/ reachable[n]
         \/ adjacencyList[n].faceId = 0
         \/ adjacencyList[n].status = STATUS_INACTIVE)

C8_Witness ==
  \E n \in NeighborNames :
    /\ TimeoutRan(n)
    /\ ~reachable[n]
    /\ adjacencyList[n].faceId # 0
    /\ CountStatusChanged(emitted, n, STATUS_INACTIVE) = 1

\* the last query had positive rttBasedCost and originalCost
PositiveQuery ==
  /\ lastQuery.made
  /\ lastQuery.rttBasedCost > 0
  /\ lastQuery.metrics.originalCost > 0

\* C9: with positive inputs the returned cost lies in
\* [0.5 * originalCost, 3.0 * originalCost].
C9_CostWithinBounds ==
  PositiveQuery =>
    /\ 2 * lastQuery.result.cost >= lastQuery.metrics.originalCost * CostScale
    /\ lastQuery.result.cost <= 3 * lastQuery.metrics.originalCost * CostScale

C9_Witness ==
  /\ PositiveQuery
  /\ lastQuery.result.cost = 3 * lastQuery.metrics.originalCost * CostScale
  /\ lastQuery.rttBasedCost
       * (CostScale + DEFAULT_RTT_WEIGHT * lastQuery.result.rttFactor
                    + DEFAULT_LOAD_WEIGHT * lastQuery.result.loadFactor
                    + DEFAULT_STABILITY_WEIGHT * lastQuery.result.stabilityFactor)
       > lastQuery.result.cost

\* the last query had positive inputs, timeoutCount 0 and a lastSuccessTime
\* within the last 60 seconds
QuietQuery ==
  /\ PositiveQuery
  /\ lastQuery.metrics.timeoutCount = <<0>>
  /\ Has(lastQuery.metrics.lastSuccessTime)
  /\ lastQuery.now - ValueOf(lastQuery.metrics.lastSuccessTime) <= 60000

\* rttBasedCost * (1 + w_R * f_R(currentRtt)), in units of 1 / CostScale
RttOnlyCost ==
  lastQuery.rttBasedCost
    * (CostScale + DEFAULT_RTT_WEIGHT * getRttFactor(lastQuery.metrics))

\* C10 as stated: a quiet query made while the neighbor's history holds
\* fewer than 3 samples returns exactly rttBasedCost * (1 + w_R * f_R).
C10_ShortHistoryRttOnly ==
  (/\ QuietQuery
   /\ Len(HistoryOf(lastQuery.before, lastQuery.neighbor)) < 3)
    => lastQuery.result.cost = RttOnlyCost

\* C10 amended: a quiet query whose neighbor's history, with the current RTT
\* (if present) appended, holds fewer than 3 samples returns
\* rttBasedCost * (1 + w_R * f_R) clamped to
\* [0.5 * originalCost, 3.0 * originalCost].
C10_ShortHistoryRttOnlyClamped ==
  (/\ QuietQuery
   /\ Len(HistoryOf(lastQuery.before, lastQuery.neighbor))
        + (IF Has(lastQuery.metrics.currentRtt) THEN 1 ELSE 0) < 3)
    => lastQuery.result.cost
         = Max(Min(RttOnlyCost, 3 * lastQuery.metrics.originalCost * CostScale),
               (lastQuery.metrics.originalCost * CostScale) \div 2)

C10_Witness ==
  /\ QuietQuery
  /\ Has(lastQuery.metrics.currentRtt)
  /\ Len(HistoryOf(lastQuery.before, lastQuery.neighbor)) = 0
  /\ getRttFactor(lastQuery.metrics) > 0
  /\ lastQuery.result.cost = RttOnlyCost

\* the factor of the table applied to the duration itself, in nanoseconds,
\* without the cast to whole milliseconds
StepOfExactRtt(ns) ==
  IF ns <= RTT_THRESHOLD_EXCELLENT * 1000000 THEN 0
  ELSE IF ns <= RTT_THRESHOLD_GOOD * 1000000 THEN 120
  ELSE IF ns <= RTT_THRESHOLD_FAIR * 1000000 THEN 300
  ELSE IF ns <= RTT_THRESHOLD_POOR * 1000000 THEN 600
  ELSE 1200

\* C11: the RTT factor is the step function of the exact RTT duration:
\* exactly 10 ms gives 0.0 and 10.0001 ms gives 0.2.
C11_RttFactorOfExactDuration ==
  (/\ lastQuery.made
   /\ lastQuery.result.adjusted
   /\ Has(lastQuery.metrics.currentRtt))
    => lastQuery.result.rttFactor
         = StepOfExactRtt(ValueOf(lastQuery.metrics.currentRtt))

\* the calls that start a reconvergence
ReconvergeKinds == {"scheduleRoutingTableCalculation", "scheduleAdjLsaBuild"}

\* the signals and calls in out that are about neighbor n, in order
AboutNeighbor(out, n) == SelectSeq(out, LAMBDA e : e.nbr = n)

\* C12: a validated reply that takes a neighbor from INACTIVE to ACTIVE first
\* sets the status ACTIVE and the count 0, then emits DataReceived, then
\* NeighborStatusChanged(ACTIVE), then makes the reconvergence call, then emits
\* InitialHelloDataValidated; a deactivating timeout emits
\* NeighborStatusChanged(INACTIVE) after the status is set and before the
\* reconvergence call.
C12_EffectsInOrder ==
  \A n \in NeighborNames :
    LET e == AboutNeighbor(emitted, n) IN
    /\ (ReplyRan(n) /\ handler.before[n].status = STATUS_INACTIVE) =>
         /\ Len(e) = 4
         /\ e[1].ev = "DataReceived"
         /\ e[1].obs.status = STATUS_ACTIVE /\ e[1].obs.timedOutCount = 0
         /\ e[2].ev = "NeighborStatusChanged" /\ e[2].arg = STATUS_ACTIVE
         /\ e[3].ev \in ReconvergeKinds
         /\ e[4].ev = "InitialHelloDataValidated"
    /\ (TimeoutRan(n) /\ CountEv(emitted, "NeighborStatusChanged", n) > 0) =>
         /\ Len(e) = 3
         /\ e[1].ev = "Timeout"
         /\ e[2].ev = "NeighborStatusChanged" /\ e[2].arg = STATUS_INACTIVE
         /\ e[2].obs.status = STATUS_INACTIVE
         /\ e[3].ev \in ReconvergeKinds

C12_Witness ==
  \E n \in NeighborNames :
    /\ ReplyRan(n)
    /\ handler.before[n].status = STATUS_INACTIVE
    /\ handler.before[n].timedOutCount > 0
    /\ Len(AboutNeighbor(emitted, n)) = 4
    /\ Len(statusChanges[n]) >= 2

\* the well-formed Hello Interest that neighbor n sends to this router
InboundHelloFrom(n) ==
  RouterPrefix \o <<NLSR_COMPONENT, INFO_COMPONENT, WireEncode(n)>>

\* 1 if handling an inbound Hello from a neighbor with this record sends the
\* reactive Hello, else 0
ReactiveProbes(adjacent) ==
  IF adjacent.status = STATUS_INACTIVE /\ adjacent.faceId # 0 THEN 1 ELSE 0

\* C13: handling a well-formed inbound Hello Interest from a configured
\* neighbor sends exactly one Data, expresses exactly one Hello Interest to
\* that neighbor iff it is INACTIVE with a non-zero face id, leaves the
\* adjacency list as it was and leaves the pending sendHelloInterest tasks
\* as they were.
C13_InboundProbeAnswered ==
  [][\A n \in NeighborNames :
       ProcessInterest(InboundHelloFrom(n)) =>
         /\ CountEv(emitted', "put", n) = 1
         /\ CountEv(emitted', "SENT_HELLO_DATA", <<>>) = 1
         /\ CountEv(emitted', "InterestSent", n) = ReactiveProbes(adjacencyList[n])
         /\ pendingInterests' =
              [pendingInterests EXCEPT
                 ![HelloInterestName(n)] = @ + ReactiveProbes(adjacencyList[n])]
         /\ adjacencyList' = adjacencyList
         /\ helloEvents' = helloEvents]_vars

C13_Witness ==
  \E n \in NeighborNames :
    /\ handler.op = "processInterest"
    /\ handler.name = InboundHelloFrom(n)
    /\ handler.before[n].status = STATUS_INACTIVE
    /\ handler.before[n].faceId # 0
    /\ CountEv(emitted, "put", n) = 1
    /\ CountEv(emitted, "InterestSent", n) = 1
    /\ helloEvents[n] = 1

\* C14: in every state between callbacks every configured neighbor has
\* exactly one pending sendHelloInterest task, whatever its face id.
C14_OnePendingHelloTask ==
  \A n \in NeighborNames : helloEvents[n] = 1

C14_Witness ==
  \E n \in NeighborNames :
    /\ handler.op = "sendHelloInterest"
    /\ handler.name = n
    /\ adjacencyList[n].faceId = 0
    /\ emitted = <<>>
    /\ helloEvents[n] = 1
    /\ adjacencyList[n].timedOutCount > 0
    /\ Outstanding > 0

\* C15: a Nack changes no adjacency record and emits nothing; it moves the
\* Interest from the Face to one scheduled run of the timeout handler.  That
\* run acts as a timeout does: it adds one to the timed-out count, emits
\* Timeout with the new count, re-expresses the Interest iff the new count is
\* below the retry number and otherwise deactivates an ACTIVE neighbor, also
\* when a Hello reply of the neighbor was handled since the Nack.
C15_NackIsDeferredTimeout ==
  [][\A n \in NeighborNames :
       LET i == HelloInterestName(n)
           count == adjacencyList[n].timedOutCount + 1
           resend == IF count < interestRetryNumber THEN 1 ELSE 0
       IN
       /\ InterestNacked(i) =>
            /\ adjacencyList' = adjacencyList
            /\ emitted' = <<>>
            /\ nackTimeouts' = [nackTimeouts EXCEPT ![i] = @ + 1]
            /\ pendingInterests' = [pendingInterests EXCEPT ![i] = @ - 1]
       /\ NackTimedOut(i) =>
            /\ nackTimeouts' = [nackTimeouts EXCEPT ![i] = @ - 1]
            /\ adjacencyList'[n].timedOutCount = count
            /\ CountEv(emitted', "Timeout", n) = 1
            /\ \A k \in 1..Len(emitted') :
                 emitted'[k].ev = "Timeout" => emitted'[k].arg = count
            /\ CountEv(emitted', "InterestSent", n) = resend
            /\ pendingInterests' = [pendingInterests EXCEPT ![i] = @ + resend]
            /\ adjacencyList'[n].status =
                 (IF resend = 0 THEN STATUS_INACTIVE ELSE adjacencyList[n].status)
            /\ CountStatusChanged(emitted', n, STATUS_INACTIVE) =
                 (IF resend = 0 /\ adjacencyList[n].status = STATUS_ACTIVE
                  THEN 1 ELSE 0)]_vars

C15_Witness ==
  \E n \in NeighborNames :
    /\ handler.op = "deferred processInterestTimedOut"
    /\ handler.name = HelloInterestName(n)
    /\ handler.prevOutcome[n] = "data"
    /\ handler.before[n].status = STATUS_ACTIVE
    /\ adjacencyList[n].timedOutCount = 1
    /\ CountEv(emitted, "Timeout", n) = 1

\* positions in out of the onNeighborStatusChanged signals
StatusChangePositions(out) ==
  {k \in 1..Len(out) : out[k].ev = "NeighborStatusChanged"}

\* positions in out of the reconvergence calls
ReconvergePositions(out) ==
  {k \in 1..Len(out) : out[k].ev \in ReconvergeKinds}

\* C16: in every handler run each onNeighborStatusChanged is followed at once
\* by exactly one reconvergence call, scheduleRoutingTableCalculation in
\* hyperbolic mode and scheduleAdjLsaBuild otherwise, and a run that emits no
\* onNeighborStatusChanged makes no reconvergence call.
C16_ReconvergePerStatusChange ==
  /\ ReconvergePositions(emitted) = {k + 1 : k \in StatusChangePositions(emitted)}
  /\ \A k \in ReconvergePositions(emitted) :
       /\ emitted[k].nbr = emitted[k - 1].nbr
       /\ emitted[k].ev = (IF hyperbolicState = HYPERBOLIC_STATE_ON
                           THEN "scheduleRoutingTableCalculation"
                           ELSE "scheduleAdjLsaBuild")

C16_Witness ==
  \E n \in NeighborNames :
    /\ TimeoutRan(n)
    /\ hyperbolicState = HYPERBOLIC_STATE_ON
    /\ CountStatusChanged(emitted, n, STATUS_INACTIVE) = 1
    /\ CountEv(emitted, "scheduleRoutingTableCalculation", n) = 1
    /\ Len(statusChanges[n]) >= 2

\* inbound Interests that are no well-formed Hello of a configured neighbor:
\* the component before the last is not INFO, or the sender is unknown
DroppedInterestNames ==
  InboundInterestNames \ {InboundHelloFrom(n) : n \in NeighborNames}

\* C17: an inbound Interest whose component before the last is not INFO, or
\* whose sender is no configured neighbor, only increments RCV_HELLO_INTEREST:
\* no Data, no Interest, no signal, no change of the adjacency list.
C17_MalformedOrUnknownDropped ==
  [][\A i \in DroppedInterestNames :
       ProcessInterest(i) =>
         /\ Len(emitted') = 1
         /\ emitted'[1].ev = "RCV_HELLO_INTEREST"
         /\ adjacencyList' = adjacencyList
         /\ pendingInterests' = pendingInterests
         /\ helloEvents' = helloEvents]_vars

C17_Witness ==
  /\ handler.op = "processInterest"
  /\ handler.name \in DroppedInterestNames
  /\ Get(handler.name, 2) # INFO_COMPONENT
  /\ Len(emitted) = 1
  /\ \E n \in NeighborNames :
       /\ adjacencyList[n].status = STATUS_INACTIVE
       /\ adjacencyList[n].faceId # 0
       /\ adjacencyList[n].timedOutCount > 0

\* C18: every handled timeout of a configured neighbor's Hello adds exactly
\* one to its timed-out count and emits Timeout with the new count n; it
\* expresses exactly one new Interest iff n is below the retry number, then
\* leaving the status as it was, and none otherwise.
C18_TimeoutCountsAndRetries ==
  \A n \in NeighborNames :
    TimeoutRan(n) =>
      LET count == handler.before[n].timedOutCount + 1 IN
      /\ adjacencyList[n].timedOutCount = count
      /\ CountEv(emitted, "Timeout", n) = 1
      /\ \A k \in 1..Len(emitted) :
           emitted[k].ev = "Timeout" =>
             /\ emitted[k].arg = count
             /\ emitted[k].obs.timedOutCount = count
      /\ CountEv(emitted, "InterestSent", n)
           = (IF count < interestRetryNumber THEN 1 ELSE 0)
      /\ CountEv(emitted, "SENT_HELLO_INTEREST", <<>>)
           = (IF count < interestRetryNumber THEN 1 ELSE 0)
      /\ count < interestRetryNumber =>
           adjacencyList[n].status = handler.before[n].status

C18_Witness ==
  \E n \in NeighborNames :
    /\ TimeoutRan(n)
    /\ handler.before[n].status = STATUS_INACTIVE
    /\ adjacencyList[n].timedOutCount > interestRetryNumber
    /\ CountEv(emitted, "Timeout", n) = 1
    /\ CountEv(emitted, "InterestSent", n) = 0

\* the samples the last query appended to the history of neighbor n: the
\* current RTT in whole milliseconds, once by getLoadFactor and once by
\* calculateLoadAwareCost, when the query was for n, did not return early
\* and had an RTT
AppendedBy(query, n) ==
  IF /\ query.neighbor = n
     /\ query.rttBasedCost > 0
     /\ query.metrics.originalCost > 0
     /\ Has(query.metrics.currentRtt)
  THEN LET ms == ValueOf(query.metrics.currentRtt) \div 1000000 IN <<ms, ms>>
  ELSE <<>>

\* the last k elements of s, all of s if it has fewer
MostRecent(s, k) == SubSeq(s, Max(1, Len(s) - k + 1), Len(s))

\* C19: every history holds at most MAX_RTT_HISTORY samples; a query leaves
\* its neighbor's history equal to the most recent MAX_RTT_HISTORY of the old
\* samples followed by the appended ones, leaves every other neighbor's
\* history as it was, and a query that returns early returns rttBasedCost and
\* changes no history.
C19_HistoryIsBoundedFifo ==
  /\ \A n \in DOMAIN rttHistory : Len(rttHistory[n]) <= MAX_RTT_HISTORY
  /\ lastQuery.made =>
       /\ \A n \in CostNeighbors :
            HistoryOf(rttHistory, n)
              = MostRecent(HistoryOf(lastQuery.before, n) \o AppendedBy(lastQuery, n),
                           MAX_RTT_HISTORY)
       /\ (lastQuery.rttBasedCost <= 0 \/ lastQuery.metrics.originalCost <= 0) =>
            /\ lastQuery.result.cost = lastQuery.rttBasedCost * CostScale
            /\ rttHistory = lastQuery.before

C19_Witness ==
  /\ lastQuery.made
  /\ Len(HistoryOf(lastQuery.before, lastQuery.neighbor)) = MAX_RTT_HISTORY
  /\ HistoryOf(rttHistory, lastQuery.neighbor)
       # HistoryOf(lastQuery.before, lastQuery.neighbor)
  /\ \E m \in CostNeighbors \ {lastQuery.neighbor} :
       /\ Len(HistoryOf(rttHistory, m)) = MAX_RTT_HISTORY
       /\ HistoryOf(rttHistory, m) = HistoryOf(lastQuery.before, m)

\* some calculator is alive
SomeCalculatorAlive == \E c \in CalculatorIds : calculators[c] = "alive"

\* C20 as stated: the slot of the link-cost manager is empty exactly when no
\* calculator is alive, and a callback in it belongs to a calculator that is
\* alive.
C20_HookSetIffCalculatorAlive ==
  /\ (loadAwareCostCalculator = NoCalculator) <=> ~SomeCalculatorAlive
  /\ loadAwareCostCalculator # NoCalculator =>
       calculators[loadAwareCostCalculator] = "alive"

\* C20 amended: a callback in the slot belongs to a calculator that is alive
\* (so the slot is empty when none is alive), every destruction leaves the
\* slot empty, also when other calculators are alive, and every construction
\* leaves the new calculator's callback in it.
C20_HookOfLiveCalculatorOrEmpty ==
  /\ [](loadAwareCostCalculator # NoCalculator =>
          calculators[loadAwareCostCalculator] = "alive")
  /\ [][\A c \in CalculatorIds :
          /\ Destroy(c) => loadAwareCostCalculator' = NoCalculator
          /\ Construct(c) => loadAwareCostCalculator' = c]_vars

C20_Witness ==
  /\ loadAwareCostCalculator = NoCalculator
  /\ SomeCalculatorAlive
  /\ \E c \in CalculatorIds : calculators[c] = "destroyed"

====
